---- MODULE Spec2Model ----
(***************************************************************************)
(* Semantic memory store: the six tools (store_memory, search_memory,      *)
(* recall_context, get_related, reinforce, forget), the statements they    *)
(* send to the database (db/queries.js) and the schema's constraints,      *)
(* trigger and cascades (db/schema.sql).                                   *)
(*                                                                         *)
(* Numbers are fixed point.  Importance, similarity, recency, strength and *)
(* minScore are in thousandths; the two scoring weights are in tenths;     *)
(* a hybrid score is therefore in units of 10^-7.  One tick of the clock   *)
(* is RecencyDecayDays days.                                               *)
(***************************************************************************)
EXTENDS Integers, Sequences, FiniteSets, Bags, TLC

\* ------------------------------------------------------------- bounds
MaxMem == 2
MaxTime == 1
MaxLog == 2
MaxPending == 1
MaxReinforce == 1
MaxCalls == 3

\* ------------------------------------------------- program constants
Unit == 1000
SemanticWeight == 8
RecencyWeight == 2
RecencyDecayDays == 30
DefaultImportance == 500
ImportanceBase == 500
DecayFloor == 10
DefaultBoost == 100
DefaultDecayFactor == 100
DefaultStrength == 500
DefaultLimit == 10
SearchMaxLimit == 100
RecallMaxLimit == 50
RelatedMaxLimit == 50
SearchDefaultMinScore == 300
RecallDefaultMinScore == 250
MaxContextItems == 10
CandidateSlack == 5
MAX_TAGS == 20

\* ------------------------------------------------------- JS values
Undef == [t |-> "undefined"]
JNull == [t |-> "null"]
Num(n) == [t |-> "number", v |-> n]
Str(s) == [t |-> "string", v |-> s]
Arr(a) == [t |-> "array", v |-> a]
Bool(b) == [t |-> "boolean", v |-> b]

\* JS truthiness: undefined, null, 0, "" and false are falsy; an array
\* (even an empty one) is truthy.
Truthy(x) ==
  CASE x.t = "undefined" -> FALSE
    [] x.t = "null" -> FALSE
    [] x.t = "number" -> x.v # 0
    [] x.t = "string" -> x.v # ""
    [] x.t = "boolean" -> x.v
    [] OTHER -> TRUE

\* a ?? b
Nullish(x) == x.t \in {"undefined", "null"}

\* SQL NULL in a timestamp column
NULL == 0 - 1

Range(s) == {s[i] : i \in DOMAIN s}
Min(a, b) == IF a < b THEN a ELSE b
Max(a, b) == IF a > b THEN a ELSE b

\* ---------------------------------------------------------- uuids
\* The uuids that uuid_generate_v4() hands out, in the order it does, and
\* one more that no row ever carries.
UUIDs ==
  << "0a000000-0000-4000-8000-000000000001",
     "0a000000-0000-4000-8000-000000000002",
     "0a000000-0000-4000-8000-000000000003",
     "0a000000-0000-4000-8000-000000000004",
     "0a000000-0000-4000-8000-000000000005" >>
MemIds == {UUIDs[n] : n \in 1..MaxMem}
UnknownId == UUIDs[MaxMem + 1]
UpperId == "0A000000-0000-4000-8000-000000000001"
MalformedId == "not-a-uuid"

ToLowerCase(s) == IF s = UpperId THEN UUIDs[1] ELSE s

\* validateUUID(id): [ok, v].  The regex is case-insensitive and the result
\* is lower-cased.
validateUUID(id) ==
  IF id.t # "string" THEN [ok |-> FALSE, error |-> "ID must be a string"]
  ELSE IF ToLowerCase(id.v) \notin Range(UUIDs)
       THEN [ok |-> FALSE, error |-> "Invalid UUID format"]
       ELSE [ok |-> TRUE, v |-> ToLowerCase(id.v)]

\* validateLimit(limit, max): parseInt, reject < 1, clamp to max.
validateLimit(limit, max) ==
  IF Nullish(limit) THEN [ok |-> TRUE, v |-> DefaultLimit]
  ELSE IF limit.t # "number" \/ limit.v < 1
       THEN [ok |-> FALSE, error |-> "Limit must be a positive integer"]
       ELSE [ok |-> TRUE, v |-> Min(limit.v, max)]

\* validateQuery(query): a string that is not empty after trimming.
validateQuery(q) ==
  IF q.t # "string" THEN [ok |-> FALSE, error |-> "Query must be a string"]
  ELSE IF q.v = "" THEN [ok |-> FALSE, error |-> "Query cannot be empty"]
       ELSE [ok |-> TRUE, v |-> q.v]

\* sanitizeContent(content)
sanitizeContent(c) ==
  IF c.t # "string" THEN [ok |-> FALSE, error |-> "Content must be a string"]
  ELSE IF c.v = "" THEN [ok |-> FALSE, error |-> "Content cannot be empty"]
       ELSE [ok |-> TRUE, v |-> c.v]

\* The tag strings: lower-case tags, one upper-case spelling and one with a
\* character outside a-z0-9_-.
TagLower(s) == IF s = "Temporary" THEN "temporary" ELSE s
TagCharsOk(s) == s \in {"temporary", "permanent"}

\* validateTags(tags): undefined/null -> []; an array of at most MAX_TAGS
\* non-empty strings over a-z0-9_-, each trimmed and lower-cased.
validateTags(tags) ==
  IF Nullish(tags) THEN [ok |-> TRUE, v |-> << >>]
  ELSE IF tags.t # "array" THEN [ok |-> FALSE, error |-> "Tags must be an array"]
  ELSE IF Len(tags.v) > MAX_TAGS THEN [ok |-> FALSE, error |-> "Maximum tags allowed"]
  ELSE IF \E i \in DOMAIN tags.v : TagLower(tags.v[i]) = ""
       THEN [ok |-> FALSE, error |-> "Tag cannot be empty"]
  ELSE IF \E i \in DOMAIN tags.v : ~TagCharsOk(TagLower(tags.v[i]))
       THEN [ok |-> FALSE, error |-> "Tag contains invalid characters"]
  ELSE [ok |-> TRUE, v |-> [i \in DOMAIN tags.v |-> TagLower(tags.v[i])]]

\* validateImportance(importance): default 0.5, else a number in [0, 1].
validateImportance(importance) ==
  IF Nullish(importance) THEN [ok |-> TRUE, v |-> DefaultImportance]
  ELSE IF importance.t # "number"
       THEN [ok |-> FALSE, error |-> "Importance must be a number"]
  ELSE IF importance.v < 0 \/ importance.v > Unit
       THEN [ok |-> FALSE, error |-> "Importance must be between 0 and 1"]
  ELSE [ok |-> TRUE, v |-> importance.v]

\* ------------------------------------------------------- embeddings
\* The embedding service and the vector index are external: a text stands
\* for its embedding, and the cosine similarity (1 - (a <=> b)) of two texts
\* is a fixed table.
Contents == {"dark mode", "vim keys"}
Queries == {"ui theme", "editor"}

Similarity(a, b) ==
  IF a = b THEN Unit
  ELSE IF {a, b} = {"ui theme", "dark mode"} THEN 900
  ELSE IF {a, b} = {"editor", "vim keys"} THEN 900
  ELSE IF {a, b} = {"dark mode", "vim keys"} THEN 400
  ELSE 300

\* --------------------------------------------------------- scoring
\* calculate_recency_score: EXP(-days_since_access / decay_days), in
\* thousandths, for an age of whole ticks (one tick = decay_days days).
calculate_recency_score(last_accessed, t) ==
  LET age == t - last_accessed
  IN CASE age <= 0 -> 1000
       [] age = 1 -> 368
       [] age = 2 -> 135
       [] age = 3 -> 50
       [] OTHER -> 18

\* calculate_hybrid_score: base_score * (0.5 + importance), in 10^-7.
calculate_hybrid_score(semantic_similarity, last_accessed, importance, t) ==
  LET recency_score == calculate_recency_score(last_accessed, t)
      base_score == (SemanticWeight * semantic_similarity)
                    + (RecencyWeight * recency_score)
  IN base_score * (ImportanceBase + importance)

\* A threshold given in thousandths, in the unit of a hybrid score.
ScoreUnits(minScore) == minScore * 10 * Unit

\* Number.toFixed(4): a hybrid score rounded to four decimals (10^-4).
ToFixed4(score) == (score + (Unit \div 2)) \div Unit

\* ------------------------------------------------------ sequences
Perms(S) ==
  {s \in [1..Cardinality(S) -> S] :
     \A i, j \in 1..Cardinality(S) : i # j => s[i] # s[j]}

\* ORDER BY key DESC: every order the database may return (ties in any
\* order).
OrderByDesc(S, key) ==
  {s \in Perms(S) : \A i \in 1..(Len(s) - 1) : key[s[i]] >= key[s[i + 1]]}

\* LIMIT n / Array.slice(0, n)
Take(s, n) == SubSeq(s, 1, Min(n, Len(s)))

SeqToSet(s) == {s[i] : i \in DOMAIN s}

\* ------------------------------------------------------ the schema
\* Mutant: the table without the CHECK on importance.
CheckImportance_None(v) == TRUE

\* CHECK (importance >= 0 AND importance <= 1)
CheckImportance(v) == v >= 0 /\ v <= Unit

\* CHECK (strength >= 0 AND strength <= 1)
CheckStrength(v) == v >= 0 /\ v <= Unit

\* Mutant: memory_relations has no self-reference constraint.
CheckNoSelfReference_None(source, target) == TRUE

\* CONSTRAINT no_self_reference
CheckNoSelfReference(source, target) == source # target

\* Mutant: deleting a memory leaves its relations in place.
CascadeRelations_None(rels, mems) == rels

\* ON DELETE CASCADE of memory_relations and memory_access_log
CascadeRelations(rels, mems) ==
  {r \in rels : r.source \in DOMAIN mems /\ r.target \in DOMAIN mems}

LogRows(log) == BagToSet(log)

CascadeLog(log, mems) ==
  LET keep == {r \in LogRows(log) : r.memory_id \in DOMAIN mems}
  IN [r \in keep |-> log[r]]

\* Number of access-log rows of one memory.
RECURSIVE SumCopies(_, _)
SumCopies(log, rows) ==
  IF rows = {} THEN 0
  ELSE LET r == CHOOSE x \in rows : TRUE
       IN log[r] + SumCopies(log, rows \ {r})

LogCount(log, id) ==
  SumCopies(log, {r \in LogRows(log) : r.memory_id = id})

\* Mutant: the trigger refreshes last_accessed and forgets the counter.
update_memory_access_NoCount(mems, memory_id, t) ==
  [mems EXCEPT ![memory_id].last_accessed = t]

\* memory_access_trigger -> update_memory_access(): AFTER INSERT ON
\* memory_access_log FOR EACH ROW, in the inserting statement.
update_memory_access(mems, memory_id, t) ==
  [mems EXCEPT ![memory_id].last_accessed = t,
               ![memory_id].access_count = @ + 1]

\* ------------------------------------------------- MemoryQueries
\* create: INSERT INTO memories ... with the column defaults.
MemoryCreate(mems, id, content, tags, importance, t) ==
  IF ~CheckImportance(importance) \/ content = ""
  THEN [ok |-> FALSE, mems |-> mems]
  ELSE [ok |-> TRUE,
        mems |-> [x \in DOMAIN mems \cup {id} |->
                    IF x = id
                    THEN [content |-> content,
                          tags |-> tags,
                          importance |-> importance,
                          access_count |-> 0,
                          reinforcement_count |-> 0,
                          created_at |-> t,
                          last_accessed |-> t,
                          last_reinforced |-> NULL,
                          expires_at |-> NULL,
                          deleted_at |-> NULL]
                    ELSE mems[x]]]

\* tags && $n : the arrays overlap
TagsOverlap(a, b) == SeqToSet(a) \cap SeqToSet(b) # {}

\* search: the WHERE clause (tags is null or a validated array)
SearchWhere(row, tags) ==
  /\ row.deleted_at = NULL
  /\ (tags.t = "array" /\ Len(tags.v) > 0) => TagsOverlap(row.tags, tags.v)

SearchScore(mems, embedding, t) ==
  [id \in DOMAIN mems |->
     calculate_hybrid_score(Similarity(embedding, mems[id].content),
                            mems[id].last_accessed, mems[id].importance, t)]

\* Mutant: the rows are returned unfiltered.
FilterMinScore_None(rows, minScore) == rows

\* rows.filter(row => row.hybrid_score >= minScore)
FilterMinScore(rows, minScore) ==
  SelectSeq(rows, LAMBDA r : r.hybrid_score >= ScoreUnits(minScore))

\* search: every result the statement and the filter may produce.
MemorySearch(mems, embedding, limit, minScore, tags, t) ==
  LET eligible == {id \in DOMAIN mems : SearchWhere(mems[id], tags)}
      score == SearchScore(mems, embedding, t)
  IN {FilterMinScore(
        [i \in DOMAIN Take(s, limit) |->
           [id |-> s[i], hybrid_score |-> score[s[i]]]],
        minScore) : s \in OrderByDesc(eligible, score)}

\* getById: WHERE id = $1 AND deleted_at IS NULL
MemoryGetById(mems, id) == id \in DOMAIN mems /\ mems[id].deleted_at = NULL

\* Mutant: the sum is stored without the cap at 1.0.
MemoryReinforce_NoCap(mems, id, importanceDelta, t) ==
  IF ~MemoryGetById(mems, id)
  THEN [ok |-> TRUE, found |-> FALSE, mems |-> mems]
  ELSE LET v == mems[id].importance + importanceDelta
       IN IF ~CheckImportance(v)
          THEN [ok |-> FALSE, found |-> FALSE, mems |-> mems]
          ELSE [ok |-> TRUE, found |-> TRUE,
                mems |-> [mems EXCEPT ![id].importance = v,
                                      ![id].reinforcement_count = @ + 1,
                                      ![id].last_reinforced = t,
                                      ![id].last_accessed = t]]

\* reinforce: one UPDATE, checked against the importance CHECK
MemoryReinforce(mems, id, importanceDelta, t) ==
  IF ~MemoryGetById(mems, id)
  THEN [ok |-> TRUE, found |-> FALSE, mems |-> mems]
  ELSE LET v == Min(mems[id].importance + importanceDelta, Unit)
       IN IF ~CheckImportance(v)
          THEN [ok |-> FALSE, found |-> FALSE, mems |-> mems]
          ELSE [ok |-> TRUE, found |-> TRUE,
                mems |-> [mems EXCEPT ![id].importance = v,
                                      ![id].reinforcement_count = @ + 1,
                                      ![id].last_reinforced = t,
                                      ![id].last_accessed = t]]

\* Mutant: decay also takes one reinforcement back.
MemoryDecay_Unreinforce(mems, id, decayFactor) ==
  IF ~MemoryGetById(mems, id)
  THEN [ok |-> TRUE, found |-> FALSE, mems |-> mems]
  ELSE LET v == Max((mems[id].importance * decayFactor) \div Unit, DecayFloor)
       IN IF ~CheckImportance(v)
          THEN [ok |-> FALSE, found |-> FALSE, mems |-> mems]
          ELSE [ok |-> TRUE, found |-> TRUE,
                mems |-> [mems EXCEPT ![id].importance = v,
                                      ![id].reinforcement_count = @ - 1]]

\* Mutant: the product is stored without the floor.
MemoryDecay_NoFloor(mems, id, decayFactor) ==
  IF ~MemoryGetById(mems, id)
  THEN [ok |-> TRUE, found |-> FALSE, mems |-> mems]
  ELSE LET v == (mems[id].importance * decayFactor) \div Unit
       IN IF ~CheckImportance(v)
          THEN [ok |-> FALSE, found |-> FALSE, mems |-> mems]
          ELSE [ok |-> TRUE, found |-> TRUE,
                mems |-> [mems EXCEPT ![id].importance = v]]

\* decay: GREATEST(importance * $2, 0.01)
MemoryDecay(mems, id, decayFactor) ==
  IF ~MemoryGetById(mems, id)
  THEN [ok |-> TRUE, found |-> FALSE, mems |-> mems]
  ELSE LET v == Max((mems[id].importance * decayFactor) \div Unit, DecayFloor)
       IN IF ~CheckImportance(v)
          THEN [ok |-> FALSE, found |-> FALSE, mems |-> mems]
          ELSE [ok |-> TRUE, found |-> TRUE,
                mems |-> [mems EXCEPT ![id].importance = v]]

\* Mutant: the UPDATE without its deleted_at IS NULL condition.
MemorySoftDelete_Restamp(mems, id, t) ==
  IF id \in DOMAIN mems
  THEN [found |-> TRUE, mems |-> [mems EXCEPT ![id].deleted_at = t]]
  ELSE [found |-> FALSE, mems |-> mems]

\* softDelete: SET deleted_at = NOW() WHERE id = $1 AND deleted_at IS NULL
MemorySoftDelete(mems, id, t) ==
  IF MemoryGetById(mems, id)
  THEN [found |-> TRUE, mems |-> [mems EXCEPT ![id].deleted_at = t]]
  ELSE [found |-> FALSE, mems |-> mems]

\* hardDelete: DELETE FROM memories WHERE id = $1
MemoryHardDelete(mems, id) ==
  [found |-> id \in DOMAIN mems,
   mems |-> [x \in DOMAIN mems \ {id} |-> mems[x]]]

\* Mutant: the WHERE clause does not start from 'deleted_at IS NULL'.
ForgetWhere_Deleted(row, tags, olderThanDays, minImportance, t) ==
  /\ (tags.t = "array" /\ Len(tags.v) > 0) => TagsOverlap(row.tags, tags.v)
  /\ Truthy(olderThanDays) =>
       row.created_at * RecencyDecayDays < t * RecencyDecayDays - olderThanDays.v
  /\ ~Nullish(minImportance) => row.importance < minImportance.v

\* Mutant: a row matches when it passes any one of the supplied filters.
ForgetWhere_Any(row, tags, olderThanDays, minImportance, t) ==
  /\ row.deleted_at = NULL
  /\ \/ (tags.t = "array" /\ Len(tags.v) > 0) /\ TagsOverlap(row.tags, tags.v)
     \/ Truthy(olderThanDays) /\
          row.created_at * RecencyDecayDays < t * RecencyDecayDays - olderThanDays.v
     \/ ~Nullish(minImportance) /\ row.importance < minImportance.v

\* forgetByCriteria: the WHERE clause.  tags, olderThanDays, minImportance
\* are the destructured arguments (undefined takes the default null).
ForgetWhere(row, tags, olderThanDays, minImportance, t) ==
  /\ row.deleted_at = NULL
  /\ (tags.t = "array" /\ Len(tags.v) > 0) => TagsOverlap(row.tags, tags.v)
  /\ Truthy(olderThanDays) =>
       row.created_at * RecencyDecayDays < t * RecencyDecayDays - olderThanDays.v
  /\ ~Nullish(minImportance) => row.importance < minImportance.v

ForgetMatches(mems, tags, olderThanDays, minImportance, t) ==
  {id \in DOMAIN mems :
     ForgetWhere(mems[id], tags, olderThanDays, minImportance, t)}

forgetByCriteria(mems, tags, olderThanDays, minImportance, soft, t) ==
  LET hit == ForgetMatches(mems, tags, olderThanDays, minImportance, t)
  IN IF soft
     THEN [count |-> Cardinality(hit),
           mems |-> [x \in DOMAIN mems |->
                       IF x \in hit THEN [mems[x] EXCEPT !.deleted_at = t]
                       ELSE mems[x]]]
     ELSE [count |-> Cardinality(hit),
           mems |-> [x \in DOMAIN mems \ hit |-> mems[x]]]

\* getRelated: the nearest other non-deleted memories, nearest first
MemoryGetRelated(mems, id, limit) ==
  IF ~MemoryGetById(mems, id) THEN {<< >>}
  ELSE LET others == {x \in DOMAIN mems : x # id /\ mems[x].deleted_at = NULL}
           sim == [x \in DOMAIN mems |->
                     Similarity(mems[id].content, mems[x].content)]
       IN {[i \in DOMAIN Take(s, limit) |->
              [id |-> s[i], similarity |-> sim[s[i]]]] :
             s \in OrderByDesc(others, sim)}

\* Mutant: the insert has no ON CONFLICT clause and no unique constraint.
RelationCreate_Append(rels, mems, sourceId, targetId, relationType, strength) ==
  IF \/ ~CheckNoSelfReference(sourceId, targetId)
     \/ ~CheckStrength(strength)
     \/ sourceId \notin DOMAIN mems
     \/ targetId \notin DOMAIN mems
  THEN [ok |-> FALSE, rels |-> rels]
  ELSE [ok |-> TRUE,
        rels |-> rels \cup {[source |-> sourceId, target |-> targetId,
                             type |-> relationType, strength |-> strength]}]

\* ----------------------------------------------- RelationQueries
\* create: INSERT ... ON CONFLICT (source, target, type) DO UPDATE
RelationCreate(rels, mems, sourceId, targetId, relationType, strength) ==
  IF \/ ~CheckNoSelfReference(sourceId, targetId)
     \/ ~CheckStrength(strength)
     \/ sourceId \notin DOMAIN mems
     \/ targetId \notin DOMAIN mems
  THEN [ok |-> FALSE, rels |-> rels]
  ELSE [ok |-> TRUE,
        rels |-> {r \in rels : ~(/\ r.source = sourceId
                                 /\ r.target = targetId
                                 /\ r.type = relationType)}
                 \cup {[source |-> sourceId, target |-> targetId,
                        type |-> relationType, strength |-> strength]}]

\* getByMemory(memoryId, 'both'): relations joined with both endpoint rows
\* (JOIN memories s, JOIN memories t), ORDER BY strength DESC
RelationGetByMemory(rels, mems, memoryId) ==
  LET hit == {r \in rels : /\ r.source \in DOMAIN mems
                           /\ r.target \in DOMAIN mems
                           /\ (r.source = memoryId \/ r.target = memoryId)}
      strength == [r \in hit |-> r.strength]
  IN OrderByDesc(hit, strength)

\* ---------------------------------------------------------- state
VARIABLES
  now,          \* NOW(), in ticks
  memories,     \* table memories: id -> row
  relations,    \* table memory_relations
  access_log,   \* table memory_access_log (a bag of rows)
  pending,      \* batchUpdateAccess calls issued and not yet executed
  console,      \* messages written with console.error
  response,     \* what the last tool call returned
  nextId,       \* index in UUIDs of the next uuid_generate_v4()
  calls,        \* handler invocations running concurrently, each at its await
  embedder,     \* whether the embedding provider answers requests
  fanOut        \* the MemoryQueries.search calls made for the response

vars ==
  << now, memories, relations, access_log, pending, console, response, nextId,
     calls, embedder, fanOut >>

tables == << memories, relations, access_log >>

\* A tool's return value: success, the error or message (note), the list it
\* returns (rows) with its length or the number forgotten (count), and the
\* request value it echoes (query, task, memoryId).
NoResponse ==
  [op |-> "none", echo |-> "", success |-> TRUE, note |-> "",
   rows |-> << >>, count |-> 0]

Resp(op, echo, success, note, rows, count) ==
  [op |-> op, echo |-> echo, success |-> success, note |-> note,
   rows |-> rows, count |-> count]

\* catch (error) { return { success: false, error: error.message } } with
\* nothing written before the throw.
Reject(op, error) ==
  /\ response' = Resp(op, "", FALSE, error, << >>, 0)
  /\ fanOut' = << >>
  /\ UNCHANGED << embedder, calls, now, memories, relations,
                  access_log, pending, console, nextId >>

Init ==
  /\ now = 0
  /\ memories = << >>
  /\ relations = {}
  /\ access_log = EmptyBag
  /\ pending = << >>
  /\ console = {}
  /\ response = NoResponse
  /\ nextId = 1
  /\ calls = << >>
  /\ embedder = TRUE
  /\ fanOut = << >>

\* Time passes.
Tick ==
  /\ now < MaxTime
  /\ now' = now + 1
  /\ UNCHANGED << fanOut, embedder, calls, memories, relations, access_log,
                  pending, console, response, nextId >>

\* ------------------------------------------------------ embeddings
\* The provider goes down or comes back.
EmbedderChange ==
  /\ embedder' = ~embedder
  /\ UNCHANGED << fanOut, now, memories, relations, access_log, pending,
                  console, response, nextId, calls >>

\* throw new Error(`Ollama embedding failed: ...`) on a response not ok
EmbeddingFailed == "Ollama embedding failed"

\* generateEmbedding(text): throws unless text is a non-empty string.
generateEmbedding(text) == text # ""

\* const concurrency = 5
EmbeddingConcurrency == 5

\* Mutant: a text the provider did not embed is left out of the batch.
generateEmbeddings_Skip(texts, up) ==
  IF \E i \in DOMAIN texts : ~generateEmbedding(texts[i])
  THEN "Text must be a non-empty string"
  ELSE ""

\* generateEmbeddings(texts): batches of five under Promise.all, so the
\* first batch holding a failure rejects, with the rejection that comes
\* first: the synchronous one of an empty text before the provider's.
\* The error message, "" when every text is embedded.
generateEmbeddings(texts, up) ==
  LET failed == {i \in DOMAIN texts : ~generateEmbedding(texts[i]) \/ ~up}
  IN IF failed = {} THEN ""
     ELSE LET first == CHOOSE i \in failed : \A j \in failed : i <= j
              batch == (first - 1) \div EmbeddingConcurrency
              members == {i \in DOMAIN texts :
                            (i - 1) \div EmbeddingConcurrency = batch}
          IN IF \E i \in members : ~generateEmbedding(texts[i])
             THEN "Text must be a non-empty string"
             ELSE EmbeddingFailed

\* ----------------------------------------------------- store_memory
StoreMemory(p) ==
  LET content == sanitizeContent(p.content)
      tags == validateTags(p.tags)
      importance == validateImportance(p.importance)
  IN IF ~content.ok THEN Reject("store_memory", content.error)
     ELSE IF ~tags.ok THEN Reject("store_memory", tags.error)
     ELSE IF ~importance.ok THEN Reject("store_memory", importance.error)
     ELSE IF ~embedder THEN Reject("store_memory", EmbeddingFailed)
     ELSE /\ nextId <= MaxMem
          /\ LET id == UUIDs[nextId]
                 c == MemoryCreate(memories, id, content.v, tags.v,
                                   importance.v, now)
             IN /\ memories' = c.mems
                /\ nextId' = nextId + 1
                /\ response' = Resp("store_memory", "", TRUE, "",
                                    << [id |-> id] >>, 1)
          /\ fanOut' = << >>
          /\ UNCHANGED << embedder, calls, now, relations, access_log, pending,
                          console >>

\* ------------------------------------------- the access-log write
\* Rows of the log that pending writes may still add.
RECURSIVE PendingRows(_)
PendingRows(ws) ==
  IF ws = << >> THEN 0 ELSE Len(Head(ws).ids) + PendingRows(Tail(ws))

LogRoom == MaxLog - BagCardinality(access_log) - PendingRows(pending)

\* Mutant: the write is issued without the query text.
IssueAccess_Untagged(ids, queryText) ==
  IF Len(ids) = 0 THEN pending' = pending
  ELSE /\ Len(pending) < MaxPending
       /\ Len(ids) <= LogRoom
       /\ pending' = Append(pending, [ids |-> ids, query_text |-> ""])

\* MemoryQueries.batchUpdateAccess(ids, queryText).catch(...): issued, not
\* awaited.  Nothing is issued for an empty id list.
IssueAccess(ids, queryText) ==
  IF Len(ids) = 0 THEN pending' = pending
  ELSE /\ Len(pending) < MaxPending
       /\ Len(ids) <= LogRoom
       /\ pending' = Append(pending, [ids |-> ids, query_text |-> queryText])

RECURSIVE ApplyTrigger(_, _, _)
ApplyTrigger(mems, ids, t) ==
  IF ids = << >> THEN mems
  ELSE ApplyTrigger(update_memory_access(mems, Head(ids), t), Tail(ids), t)

RECURSIVE InsertRows(_, _, _, _)
InsertRows(log, ids, queryText, t) ==
  IF ids = << >> THEN log
  ELSE InsertRows(
         log (+) SetToBag({[memory_id |-> Head(ids), access_type |-> "search",
                            query_text |-> queryText, accessed_at |-> t]}),
         Tail(ids), queryText, t)

\* updateAccess: one INSERT of one row; the trigger runs in the statement.
\* A memory_id with no row in memories violates the foreign key.
MemoryUpdateAccess(mems, log, id, queryText, t) ==
  IF id \in DOMAIN mems
  THEN [ok |-> TRUE,
        mems |-> ApplyTrigger(mems, << id >>, t),
        log |-> InsertRows(log, << id >>, queryText, t)]
  ELSE [ok |-> FALSE, mems |-> mems, log |-> log]

\* The placeholders the statement of batchUpdateAccess names for n ids:
\* $(i*2+1) for the i-th id (i from 0), $(n*2+1) for the query text.
Placeholders(n) == {(i * 2) + 1 : i \in 0..(n - 1)} \cup {(n * 2) + 1}

\* params = [...ids, queryText] holds n + 1 values.  The server prepares
\* and binds the statement only if it names each of $1..$(n+1) and no other.
StatementBinds(n) == Placeholders(n) = 1..(n + 1)

\* The INSERT of batchUpdateAccess: one statement, every row or none (a
\* row whose memory_id has no row in memories violates the foreign key).
batchUpdateAccess(mems, log, ids, queryText, t) ==
  IF /\ StatementBinds(Len(ids))
     /\ \A i \in DOMAIN ids : ids[i] \in DOMAIN mems
  THEN [ok |-> TRUE,
        mems |-> ApplyTrigger(mems, ids, t),
        log |-> InsertRows(log, ids, queryText, t)]
  ELSE [ok |-> FALSE, mems |-> mems, log |-> log]

RemoveAt(s, i) == SubSeq(s, 1, i - 1) \o SubSeq(s, i + 1, Len(s))

\* Mutant: a failed write is swallowed without a message.
AccessWrite_Silent(i) ==
  /\ i \in DOMAIN pending
  /\ LET w == pending[i]
         r == batchUpdateAccess(memories, access_log, w.ids, w.query_text, now)
     IN /\ memories' = r.mems
        /\ access_log' = r.log
  /\ pending' = RemoveAt(pending, i)
  /\ UNCHANGED << fanOut, embedder, calls, now, relations, console, response,
                  nextId >>

\* A pending write reaches the database; a failure goes to console.error.
AccessWrite(i) ==
  /\ i \in DOMAIN pending
  /\ LET w == pending[i]
         r == batchUpdateAccess(memories, access_log, w.ids, w.query_text, now)
     IN /\ memories' = r.mems
        /\ access_log' = r.log
        /\ console' = IF r.ok THEN console
                      ELSE console \cup {"Failed to update access counts"}
  /\ pending' = RemoveAt(pending, i)
  /\ UNCHANGED << fanOut, embedder, calls, now, relations, response, nextId >>

\* ----------------------------------------------------- search_memory
SearchMemory(p) ==
  LET queryText == validateQuery(p.query)
      limit == validateLimit(p.limit, SearchMaxLimit)
      minScore == IF Nullish(p.minScore) THEN SearchDefaultMinScore
                  ELSE p.minScore.v
      tags == IF Truthy(p.tags) THEN validateTags(p.tags)
              ELSE [ok |-> TRUE, v |-> << >>]
  IN IF ~queryText.ok THEN Reject("search_memory", queryText.error)
     ELSE IF ~limit.ok THEN Reject("search_memory", limit.error)
     ELSE IF ~tags.ok THEN Reject("search_memory", tags.error)
     ELSE IF ~embedder THEN Reject("search_memory", EmbeddingFailed)
     ELSE \E results \in MemorySearch(memories, queryText.v, limit.v, minScore,
                                      IF Truthy(p.tags) THEN Arr(tags.v) ELSE JNull,
                                      now) :
            /\ IssueAccess([i \in DOMAIN results |-> results[i].id], queryText.v)
            /\ response' =
                 Resp("search_memory", queryText.v, TRUE, "",
                      [i \in DOMAIN results |->
                         [id |-> results[i].id,
                          hybrid_score |-> results[i].hybrid_score,
                          hybrid |-> ToFixed4(results[i].hybrid_score)]],
                      Len(results))
            /\ fanOut' = << >>
            /\ UNCHANGED << embedder, calls, now, memories,
                            relations, access_log, console, nextId >>

\* Array.prototype.sort with (a, b) => key(b) - key(a): stable, descending.
\* key[i] is the key of s[i].
StableSortDesc(s, key) ==
  LET n == Len(s)
      rank(i) == 1 + Cardinality({j \in 1..n :
                        key[j] > key[i] \/ (key[j] = key[i] /\ j < i)})
  IN [k \in 1..n |-> s[CHOOSE i \in 1..n : rank(i) = k]]

\* ---------------------------------------------------- recall_context
\* Math.ceil(limit / n)
CeilDiv(a, b) == (a + b - 1) \div b

\* Position of id in the Map's entries (insertion order), 0 if absent.
MapIndex(map, id) ==
  IF \E i \in DOMAIN map : map[i].id = id
  THEN CHOOSE i \in DOMAIN map : map[i].id = id
  ELSE 0

\* Mutant: the last query to return a memory overwrites the entry.
MapMerge_KeepLast(map, result, queryText) ==
  LET at == MapIndex(map, result.id)
      entry == [id |-> result.id, hybrid_score |-> result.hybrid_score,
                matchedQuery |-> queryText]
  IN IF at = 0 THEN Append(map, entry) ELSE [map EXCEPT ![at] = entry]

\* allResults.set(result.id, {...result, matchedQuery}) when there is no
\* entry yet or the new score is strictly higher.
MapMerge(map, result, queryText) ==
  LET at == MapIndex(map, result.id)
      entry == [id |-> result.id, hybrid_score |-> result.hybrid_score,
                matchedQuery |-> queryText]
  IN IF at = 0 THEN Append(map, entry)
     ELSE IF result.hybrid_score > map[at].hybrid_score
          THEN [map EXCEPT ![at] = entry]
          ELSE map

RECURSIVE MergeResults(_, _, _)
MergeResults(map, results, queryText) ==
  IF results = << >> THEN map
  ELSE MergeResults(MapMerge(map, Head(results), queryText),
                    Tail(results), queryText)

\* The loop over the queries; searches[i] is what the search for
\* queries[i] returned.
RECURSIVE MergeQueries(_, _, _)
MergeQueries(map, searches, queries) ==
  IF searches = << >> THEN map
  ELSE MergeQueries(MergeResults(map, Head(searches), Head(queries)),
                    Tail(searches), Tail(queries))

\* Mutant: the merged entries are cut to the limit in insertion order.
RecallCombine_Unsorted(map, limit) == Take(map, limit)

\* Array.from(allResults.values()).sort(...).slice(0, limit)
RecallCombine(map, limit) ==
  Take(StableSortDesc(map, [i \in DOMAIN map |-> map[i].hybrid_score]), limit)

\* Mutant: every context item becomes a query.
RecallQueries_All(task, contextItems) == << task >> \o contextItems

RecallQueries(task, contextItems) ==
  << task >> \o Take(contextItems, MaxContextItems)

RecallContext(p) ==
  LET task == validateQuery(p.task)
      contextItems == IF Truthy(p.context) THEN p.context.v ELSE << >>
      limit == validateLimit(p.limit, RecallMaxLimit)
      minScore == IF Nullish(p.minScore) THEN RecallDefaultMinScore
                  ELSE p.minScore.v
  IN IF ~task.ok THEN Reject("recall_context", task.error)
     ELSE IF ~limit.ok THEN Reject("recall_context", limit.error)
     ELSE LET queries == RecallQueries(task.v, contextItems)
              perQuery == CeilDiv(limit.v, Len(queries)) + CandidateSlack
              found == [i \in DOMAIN queries |->
                          MemorySearch(memories, queries[i], perQuery,
                                       minScore, JNull, now)]
              failure == generateEmbeddings(queries, embedder)
          IN IF failure # "" THEN Reject("recall_context", failure)
             ELSE \E searches \in [DOMAIN queries -> UNION Range(found)] :
                    /\ \A i \in DOMAIN queries : searches[i] \in found[i]
                    /\ LET combined ==
                             RecallCombine(MergeQueries(<< >>, searches, queries),
                                           limit.v)
                       IN /\ IssueAccess([i \in DOMAIN combined |-> combined[i].id],
                                         task.v)
                          /\ response' =
                               Resp("recall_context", task.v, TRUE, "",
                                    [i \in DOMAIN combined |->
                                       [id |-> combined[i].id,
                                        hybrid_score |-> combined[i].hybrid_score,
                                        hybrid |-> ToFixed4(combined[i].hybrid_score),
                                        matchedQuery |-> combined[i].matchedQuery]],
                                    Len(combined))
                    /\ fanOut' = [i \in DOMAIN queries |->
                                    [query |-> queries[i], limit |-> perQuery]]
                    /\ UNCHANGED << embedder, calls, now, memories, relations,
                                    access_log, console, nextId >>

\* ------------------------------------------------------- get_related
\* The entry pushed for one explicit relationship.
ExplicitEntry(rel, memoryId) ==
  LET isSource == rel.source = memoryId
  IN [id |-> IF isSource THEN rel.target ELSE rel.source,
      source |-> "explicit",
      relationType |-> rel.type,
      relationDirection |-> IF isSource THEN "outgoing" ELSE "incoming",
      score |-> rel.strength]

\* The semantically similar memories that no earlier entry names.
RECURSIVE PushSimilar(_, _)
PushSimilar(related, similar) ==
  IF similar = << >> THEN related
  ELSE PushSimilar(
         IF \E i \in DOMAIN related : related[i].id = Head(similar).id
         THEN related
         ELSE Append(related, [id |-> Head(similar).id,
                               source |-> "semantic",
                               relationType |-> "",
                               relationDirection |-> "",
                               score |-> Head(similar).similarity]),
         Tail(similar))

\* related.sort by (relationStrength || similarity || 0), then slice
RelatedSorted(related, limit) ==
  Take(StableSortDesc(related, [i \in DOMAIN related |-> related[i].score]),
       limit)

GetRelated(p) ==
  LET memoryId == validateUUID(p.memoryId)
      limit == validateLimit(p.limit, RelatedMaxLimit)
      includeExplicit == p.includeExplicit # Bool(FALSE)
      includeSimilar == p.includeSimilar # Bool(FALSE)
  IN IF ~memoryId.ok THEN Reject("get_related", memoryId.error)
     ELSE IF ~limit.ok THEN Reject("get_related", limit.error)
     ELSE IF ~MemoryGetById(memories, memoryId.v)
          THEN Reject("get_related", "Memory not found")
     ELSE \E relationships \in
               (IF includeExplicit
                THEN RelationGetByMemory(relations, memories, memoryId.v)
                ELSE {<< >>}),
             similar \in
               (IF includeSimilar
                THEN MemoryGetRelated(memories, memoryId.v, limit.v)
                ELSE {<< >>}) :
            LET explicit == [i \in DOMAIN relationships |->
                               ExplicitEntry(relationships[i], memoryId.v)]
                sorted == RelatedSorted(PushSimilar(explicit, similar), limit.v)
            IN /\ response' = Resp("get_related", memoryId.v, TRUE, "", sorted, Len(sorted))
               /\ fanOut' = << >>
               /\ UNCHANGED << embedder, calls, now, memories, relations,
                               access_log, pending, console, nextId >>

\* --------------------------------------------------------- reinforce
\* The handler, as the tables and the response it leaves: mems and rels are
\* the tables when it is called.
ReinforceOutcome(p, mems, rels, t) ==
  LET memoryId == validateUUID(p.memoryId)
      boost == IF Nullish(p.boost) THEN DefaultBoost ELSE p.boost.v
      fail(m, error) ==
        [mems |-> m, rels |-> rels,
         resp |-> Resp("reinforce", "", FALSE, error, << >>, 0)]
  IN IF ~memoryId.ok THEN fail(mems, memoryId.error)
     ELSE
     LET reinforced == MemoryReinforce(mems, memoryId.v, boost, t)
         done(r, note) ==
           [mems |-> reinforced.mems, rels |-> r,
            resp |-> Resp("reinforce", "", TRUE, note,
                          << [id |-> memoryId.v,
                              importance |-> reinforced.mems[memoryId.v].importance] >>,
                          1)]
     IN IF ~reinforced.ok THEN fail(mems, "violates check constraint")
        ELSE IF ~reinforced.found THEN fail(mems, "Memory not found")
        ELSE IF ~Truthy(p.relateToMemory) THEN done(rels, "")
        ELSE
        LET targetId == validateUUID(p.relateToMemory)
            relationType == IF Truthy(p.relationType) THEN p.relationType.v
                            ELSE "related_to"
            relationStrength == IF Nullish(p.relationStrength) THEN DefaultStrength
                                ELSE p.relationStrength.v
        IN IF ~targetId.ok THEN fail(reinforced.mems, targetId.error)
           ELSE IF ~MemoryGetById(reinforced.mems, targetId.v)
                THEN done(rels, "Target memory not found")
           ELSE
           LET relation == RelationCreate(rels, reinforced.mems, memoryId.v,
                                          targetId.v, relationType,
                                          relationStrength)
           IN IF ~relation.ok
              THEN fail(reinforced.mems, "violates check constraint")
              ELSE done(relation.rels, "Created relationship")

Reinforce(p) ==
  LET o == ReinforceOutcome(p, memories, relations, now)
  IN /\ \A id \in DOMAIN memories :
          o.mems[id].reinforcement_count <= MaxReinforce
     /\ memories' = o.mems
     /\ relations' = o.rels
     /\ response' = o.resp
     /\ fanOut' = << >>
     /\ UNCHANGED << embedder, calls, now, access_log, pending, console,
                     nextId >>

\* ------------------------------------------------------------ forget
ForgetOutcome(p, mems, rels, log, t) ==
  LET soft == p.soft # Bool(FALSE)
      decayFactor == IF Nullish(p.decayFactor) THEN DefaultDecayFactor
                     ELSE p.decayFactor.v
      out(m, success, note, count) ==
        [mems |-> m, rels |-> CascadeRelations(rels, m),
         log |-> CascadeLog(log, m),
         resp |-> Resp("forget", "", success, note, << >>, count)]
  IN IF Truthy(p.memoryId)
     THEN LET memoryId == validateUUID(p.memoryId)
          IN IF ~memoryId.ok THEN out(mems, FALSE, memoryId.error, 0)
             ELSE IF soft
             THEN LET result == MemoryDecay(mems, memoryId.v, decayFactor)
                  IN IF ~result.ok
                     THEN out(mems, FALSE, "violates check constraint", 0)
                     ELSE IF result.found
                          THEN out(result.mems, TRUE, "importance decayed", 1)
                          ELSE out(mems, FALSE, "Memory not found", 0)
             ELSE LET deleted == MemoryHardDelete(mems, memoryId.v)
                  IN IF deleted.found
                     THEN out(deleted.mems, TRUE, "permanently deleted", 1)
                     ELSE out(mems, FALSE, "Memory not found", 0)
     ELSE
     LET hasCriteria == \/ Truthy(p.tags)
                        \/ Truthy(p.olderThanDays)
                        \/ p.belowImportance # Undef
         tags == IF Truthy(p.tags) THEN validateTags(p.tags)
                 ELSE [ok |-> TRUE, v |-> << >>]
         olderThanDays == IF Truthy(p.olderThanDays) THEN p.olderThanDays
                          ELSE JNull
         minImportance == IF p.belowImportance = Undef THEN JNull
                          ELSE p.belowImportance
     IN IF ~hasCriteria
        THEN out(mems, FALSE, "Must provide memoryId or at least one criteria", 0)
        ELSE IF ~tags.ok THEN out(mems, FALSE, tags.error, 0)
        ELSE LET forgotten ==
                   forgetByCriteria(mems,
                                    IF Truthy(p.tags) THEN Arr(tags.v) ELSE JNull,
                                    olderThanDays, minImportance, soft, t)
             IN out(forgotten.mems, TRUE,
                    IF soft THEN "Soft deleted" ELSE "Permanently deleted",
                    forgotten.count)

Forget(p) ==
  LET o == ForgetOutcome(p, memories, relations, access_log, now)
  IN /\ memories' = o.mems
     /\ relations' = o.rels
     /\ access_log' = o.log
     /\ response' = o.resp
     /\ fanOut' = << >>
     /\ UNCHANGED << embedder, calls, now, pending, console, nextId >>

\* ------------------------------------- MemoryQueries, called directly
\* updateAccess(id, queryText): resolves to true, or rejects.
UpdateAccess(id, queryText) ==
  /\ BagCardinality(access_log) < MaxLog
  /\ LET r == MemoryUpdateAccess(memories, access_log, id, queryText, now)
     IN /\ memories' = r.mems
        /\ access_log' = r.log
        /\ response' = Resp("updateAccess", id, r.ok, "", << >>,
                            IF r.ok THEN 1 ELSE 0)
  /\ fanOut' = << >>
  /\ UNCHANGED << embedder, calls, now, relations, pending, console, nextId >>

\* softDelete(id): resolves to rowCount > 0.
SoftDelete(id) ==
  /\ LET r == MemorySoftDelete(memories, id, now)
     IN /\ memories' = r.mems
        /\ response' = Resp("softDelete", id, r.found, "", << >>,
                            IF r.found THEN 1 ELSE 0)
  /\ fanOut' = << >>
  /\ UNCHANGED << embedder, calls, now, relations, access_log, pending,
                  console, nextId >>

\* hardDelete(id): resolves to rowCount > 0; the deletion cascades.
HardDelete(id) ==
  /\ LET r == MemoryHardDelete(memories, id)
     IN /\ memories' = r.mems
        /\ relations' = CascadeRelations(relations, r.mems)
        /\ access_log' = CascadeLog(access_log, r.mems)
        /\ response' = Resp("hardDelete", id, r.found, "", << >>,
                            IF r.found THEN 1 ELSE 0)
  /\ fanOut' = << >>
  /\ UNCHANGED << embedder, calls, now, pending, console, nextId >>

\* RelationQueries.create(sourceId, targetId, relationType): resolves to
\* the row, or rejects on a constraint.
CreateRelation(sourceId, targetId, relationType) ==
  /\ LET r == RelationCreate(relations, memories, sourceId, targetId,
                             relationType, DefaultStrength)
     IN /\ relations' = r.rels
        /\ response' = Resp("createRelation", sourceId, r.ok, "", << >>,
                            IF r.ok THEN 1 ELSE 0)
  /\ fanOut' = << >>
  /\ UNCHANGED << embedder, calls, now, memories, access_log, pending, console,
                  nextId >>

\* RelationQueries.create(sourceId, targetId, relationType, strength)
CreateRelationStrength(sourceId, targetId, relationType, strength) ==
  /\ LET r == RelationCreate(relations, memories, sourceId, targetId,
                             relationType, strength)
     IN /\ relations' = r.rels
        /\ response' = Resp("createRelation", sourceId, r.ok, "", << >>,
                            IF r.ok THEN 1 ELSE 0)
  /\ fanOut' = << >>
  /\ UNCHANGED << embedder, calls, now, memories, access_log, pending, console,
                  nextId >>

\* ------------------------------------------------ concurrent calls
\* Handlers running at the same time meet in the database: pool.query
\* runs each statement on its own connection, in its own transaction, at
\* READ COMMITTED.  An UPDATE ... WHERE id = $1 finds its row in the
\* snapshot it starts with (ScanRow), then locks the row; where another
\* statement has committed a newer version meanwhile, WHERE and SET are
\* evaluated on that version (WriteRow).
NoRow == [deleted_at |-> NULL - 1]

SetCall(c, pc, seen) == [calls EXCEPT ![c].pc = pc, ![c].seen = seen]

\* Mutant: SET is computed from the row version of the statement's snapshot.
LockRow_Snapshot(mems, id, seen) ==
  IF seen = NoRow \/ id \notin DOMAIN mems THEN mems
  ELSE [mems EXCEPT ![id] = seen]

\* The table as the statement holding the row lock reads it.
LockRow(mems, id, seen) == mems

ScanRow(c) ==
  /\ c \in DOMAIN calls
  /\ calls[c].pc = "issued"
  /\ calls[c].op \in {"reinforce", "decay"}
  /\ calls' = SetCall(c, "scanned",
                      IF calls[c].memoryId \in DOMAIN memories
                      THEN memories[calls[c].memoryId] ELSE NoRow)
  /\ UNCHANGED << fanOut, embedder, now, memories, relations, access_log,
                  pending, console, response, nextId >>

WriteRow(c) ==
  /\ c \in DOMAIN calls
  /\ calls[c].pc = "scanned"
  /\ calls[c].op \in {"reinforce", "decay"}
  /\ LET id == calls[c].memoryId
         mems == LockRow(memories, id, calls[c].seen)
         r == IF calls[c].op = "reinforce"
              THEN MemoryReinforce(mems, id, calls[c].arg, now)
              ELSE MemoryDecay(mems, id, calls[c].arg)
     IN memories' = r.mems
  /\ calls' = SetCall(c, "done", NoRow)
  /\ UNCHANGED << fanOut, embedder, now, relations, access_log, pending,
                  console, response, nextId >>

\* The reinforce handler as a call of its own: it awaits three queries,
\* and statements of other calls run between them.  calls[c].arg is
\* params.relateToMemory.
\* await MemoryQueries.reinforce(memoryId, boost)
ReinforceUpdate(c) ==
  /\ c \in DOMAIN calls
  /\ calls[c].op = "reinforce_relate"
  /\ calls[c].pc = "issued"
  /\ LET r == MemoryReinforce(memories, calls[c].memoryId, DefaultBoost, now)
     IN /\ memories' = r.mems
        /\ IF r.found
           THEN /\ calls' = SetCall(c, "reinforced", NoRow)
                /\ UNCHANGED << response, fanOut >>
           ELSE /\ calls' = SetCall(c, "done", NoRow)
                /\ response' = Resp("reinforce", "", FALSE, "Memory not found",
                                    << >>, 0)
                /\ fanOut' = << >>
  /\ UNCHANGED << now, relations, access_log, pending, console, nextId,
                  embedder >>

\* await MemoryQueries.getById(targetId)
ReinforceGetTarget(c) ==
  /\ c \in DOMAIN calls
  /\ calls[c].op = "reinforce_relate"
  /\ calls[c].pc = "reinforced"
  /\ IF MemoryGetById(memories, calls[c].arg)
     THEN /\ calls' = SetCall(c, "found", NoRow)
          /\ UNCHANGED << response, fanOut >>
     ELSE /\ calls' = SetCall(c, "done", NoRow)
          /\ response' = Resp("reinforce", "", TRUE, "Target memory not found",
                              << [id |-> calls[c].memoryId] >>, 1)
          /\ fanOut' = << >>
  /\ UNCHANGED << now, memories, relations, access_log, pending, console,
                  nextId, embedder >>

\* await RelationQueries.create(memoryId, targetId, relationType, strength)
ReinforceCreate(c) ==
  /\ c \in DOMAIN calls
  /\ calls[c].op = "reinforce_relate"
  /\ calls[c].pc = "found"
  /\ LET r == RelationCreate(relations, memories, calls[c].memoryId,
                             calls[c].arg, "related_to", DefaultStrength)
     IN /\ relations' = r.rels
        /\ response' =
             IF r.ok
             THEN Resp("reinforce", "", TRUE, "Created relationship",
                       << [id |-> calls[c].memoryId] >>, 1)
             ELSE Resp("reinforce", "", FALSE, "violates constraint", << >>, 0)
  /\ calls' = SetCall(c, "done", NoRow)
  /\ fanOut' = << >>
  /\ UNCHANGED << now, memories, access_log, pending, console, nextId,
                  embedder >>

\* ------------------------------------------------------ the requests
IdInputs == {Str(id) : id \in MemIds \cup {MalformedId}}

StoreParams ==
  {[content |-> Str(c), tags |-> g, importance |-> Undef] :
     c \in {"dark mode", ""},
     g \in {Undef, Arr(<< "Temporary" >>)}}

SearchParams ==
  {[query |-> Str(q), limit |-> l, minScore |-> Undef, tags |-> Undef] :
     q \in {"ui theme", ""},
     l \in {Undef, Num(1)}}

RecallParams ==
  {[task |-> Str("ui theme"), context |-> Arr(<< "editor" >>),
    limit |-> Undef, minScore |-> Undef]}

RelatedParams ==
  {[memoryId |-> id, limit |-> Undef, includeExplicit |-> Undef,
    includeSimilar |-> s] :
     id \in IdInputs, s \in {Undef, Bool(FALSE)}}

ReinforceParams ==
  {[memoryId |-> id, boost |-> Undef, relateToMemory |-> r,
    relationType |-> Undef, relationStrength |-> Undef] :
     id \in IdInputs, r \in {Undef} \cup IdInputs}

ForgetByIdParams ==
  {[memoryId |-> id, tags |-> Undef, olderThanDays |-> Undef,
    belowImportance |-> Undef, soft |-> Bool(FALSE), decayFactor |-> Undef] :
     id \in IdInputs}

ForgetByCriteriaParams ==
  {[memoryId |-> Undef, tags |-> c[1], olderThanDays |-> c[2],
    belowImportance |-> c[3], soft |-> c[4], decayFactor |-> Undef] :
     c \in {<< Undef, Undef, Undef, Undef >>,
            << Arr(<< >>), Undef, Undef, Undef >>,
            << Arr(<< >>), Undef, Undef, Bool(FALSE) >>,
            << Arr(<< "temporary" >>), Undef, Undef, Undef >>,
            << Arr(<< "temporary" >>), Undef, Undef, Bool(FALSE) >>,
            << Str("temporary"), Undef, Undef, Undef >>,
            << Undef, Num(RecencyDecayDays), Undef, Undef >>,
            << Undef, Undef, JNull, Undef >>,
            << Undef, Undef, Num(DefaultImportance + DefaultBoost), Undef >>,
            << Arr(<< "temporary" >>), Undef,
               Num(DefaultImportance + DefaultBoost), Undef >>}}

ForgetParams == ForgetByIdParams \cup ForgetByCriteriaParams

\* The tools on one instant of the clock.
Next ==
  \/ \E p \in StoreParams : StoreMemory(p)
  \/ \E p \in SearchParams : SearchMemory(p)
  \/ \E p \in RecallParams : RecallContext(p)
  \/ \E p \in RelatedParams : GetRelated(p)
  \/ \E p \in ReinforceParams : Reinforce(p)
  \/ \E p \in ForgetParams : Forget(p)
  \/ \E i \in 1..MaxPending : AccessWrite(i)

Spec == Init /\ [][Next]_vars

\* ------------------------------------------- retrieval over a table
\* The rows a database may hold when the server starts: every column value
\* the schema admits that the retrieval statements read.
SeedRows ==
  {[content |-> c[1], tags |-> c[2], importance |-> c[3],
    access_count |-> 0, reinforcement_count |-> 0, created_at |-> 0,
    last_accessed |-> 0, last_reinforced |-> NULL,
    expires_at |-> x[1], deleted_at |-> x[2]] :
     c \in {<< "dark mode", << >>, DefaultImportance >>,
            << "dark mode", << "temporary" >>, DefaultImportance >>,
            << "vim keys", << "temporary" >>,
               DefaultImportance + DefaultBoost >>},
     x \in {<< NULL, NULL >>, << 0, NULL >>, << NULL, 0 >>}}

InitRetrieval ==
  /\ now = 0
  /\ memories \in [MemIds -> SeedRows]
  /\ relations = {}
  /\ access_log = EmptyBag
  /\ pending = << >>
  /\ console = {}
  /\ response = NoResponse
  /\ nextId = MaxMem + 1
  /\ calls = << >>
  /\ embedder = TRUE
  /\ fanOut = << >>

RetrievalSearchParams ==
  {[query |-> Str(q), limit |-> l, minScore |-> m, tags |-> g] :
     q \in Queries,
     l \in {Undef, Num(1)},
     m \in {Undef, Num(DefaultImportance)},
     g \in {Undef, Arr(<< "temporary" >>)}}

RetrievalRecallParams ==
  {[task |-> Str("ui theme"), context |-> c, limit |-> l, minScore |-> Undef] :
     c \in {Undef, Arr(<< "editor" >>)},
     l \in {Undef, Num(1)}}

NextRetrieval ==
  \/ Tick
  \/ \E p \in RetrievalSearchParams : SearchMemory(p)
  \/ \E p \in RetrievalRecallParams : RecallContext(p)
  \/ \E i \in 1..MaxPending : AccessWrite(i)

RetrievalSpec == InitRetrieval /\ [][NextRetrieval]_vars

\* The access, relation and deletion queries against a populated store.
QueryIds == MemIds \cup {UnknownId}

HardForgetParams ==
  {[memoryId |-> Undef, tags |-> Arr(<< "temporary" >>),
    olderThanDays |-> Undef, belowImportance |-> Undef,
    soft |-> Bool(FALSE), decayFactor |-> Undef]}

NextAccess ==
  \/ Tick
  \/ \E id \in QueryIds : UpdateAccess(id, "ui theme")
  \/ \E id \in QueryIds : SoftDelete(id)
  \/ \E id \in QueryIds : HardDelete(id)
  \/ \E s, t \in MemIds : CreateRelation(s, t, "related_to")
  \/ \E p \in HardForgetParams : Forget(p)

AccessSpec == InitRetrieval /\ [][NextAccess]_vars

\* The event loop settles every query it has issued.
FairSpec == Spec /\ WF_vars(\E i \in 1..MaxPending : AccessWrite(i))

\* --------------------------------------------- importance arithmetic
ImportanceStoreParams ==
  {[content |-> Str("dark mode"), tags |-> Undef, importance |-> i] :
     i \in {Undef, Num(0), Num(20), Num(Unit + DefaultImportance)}}

ImportanceReinforceParams ==
  {[memoryId |-> Str(UUIDs[1]), boost |-> b, relateToMemory |-> Undef,
    relationType |-> Undef, relationStrength |-> Undef] :
     b \in {Undef, Num(0), Num(0 - DefaultImportance), Num(Unit)}}

ImportanceForgetParams ==
  {[memoryId |-> Str(UUIDs[1]), tags |-> Undef, olderThanDays |-> Undef,
    belowImportance |-> Undef, soft |-> Undef, decayFactor |-> f] :
     f \in {Undef, Num(Unit), Num(0 - Unit), Num(2 * Unit)}}
  \cup {[memoryId |-> Undef, tags |-> Undef, olderThanDays |-> Undef,
          belowImportance |-> Num(Unit), soft |-> Undef,
          decayFactor |-> Undef]}

NextImportance ==
  \/ Tick
  \/ \E p \in ImportanceStoreParams : StoreMemory(p)
  \/ \E p \in ImportanceReinforceParams : Reinforce(p)
  \/ \E p \in ImportanceForgetParams : Forget(p)

ImportanceSpec == Init /\ [][NextImportance]_vars

\* ------------------------------------------- forgetting by criteria
CriteriaStoreParams ==
  {[content |-> Str("dark mode"), tags |-> g, importance |-> i] :
     g \in {Undef, Arr(<< "Temporary" >>)},
     i \in {Undef, Num(DefaultImportance + (2 * DefaultBoost))}}

CriteriaForgetParams ==
  {[memoryId |-> Undef, tags |-> g, olderThanDays |-> d,
    belowImportance |-> b, soft |-> s, decayFactor |-> Undef] :
     g \in {Undef, Arr(<< "temporary" >>)},
     d \in {Undef, Num(1)},
     b \in {Undef, Num(DefaultImportance + DefaultBoost)},
     s \in {Undef, Bool(FALSE)}}

NextCriteria ==
  \/ Tick
  \/ \E p \in CriteriaStoreParams : StoreMemory(p)
  \/ \E p \in CriteriaForgetParams : Forget(p)

CriteriaSpec == Init /\ [][NextCriteria]_vars

\* --------------------------------------------------- relation edges
RelationReinforceParams ==
  {[memoryId |-> id, boost |-> Undef, relateToMemory |-> r,
    relationType |-> Undef, relationStrength |-> Undef] :
     id \in IdInputs, r \in {Undef, Str(UpperId)} \cup IdInputs}

NextRelation ==
  \/ \E p \in CriteriaStoreParams : StoreMemory(p)
  \/ \E p \in RelationReinforceParams : Reinforce(p)
  \/ \E s, t \in MemIds : \E relationType \in {"related_to", "supports"} :
       CreateRelation(s, t, relationType)

RelationSpec == Init /\ [][NextRelation]_vars

\* ------------------------------------------------- relation upsert
RelationTypes == {"related_to", "supports"}
Strengths == {DefaultStrength - DefaultBoost, DefaultStrength, Unit + DefaultStrength}

NextUpsert ==
  \/ \E p \in CriteriaStoreParams : StoreMemory(p)
  \/ \E s, t \in MemIds : \E relationType \in RelationTypes :
       \E strength \in Strengths :
         CreateRelationStrength(s, t, relationType, strength)

UpsertSpec == Init /\ [][NextUpsert]_vars

\* ----------------------------------------------------- the lifecycle
LifecycleStoreParams ==
  {[content |-> Str("dark mode"), tags |-> Undef, importance |-> Undef]}

LifecycleReinforceParams ==
  {[memoryId |-> Str(id), boost |-> Undef, relateToMemory |-> Undef,
    relationType |-> Undef, relationStrength |-> Undef] : id \in MemIds}

LifecycleForgetParams ==
  {[memoryId |-> Str(id), tags |-> Undef, olderThanDays |-> Undef,
    belowImportance |-> Undef, soft |-> s, decayFactor |-> Undef] :
     id \in MemIds, s \in {Undef, Bool(FALSE)}}
  \cup
  {[memoryId |-> Undef, tags |-> Undef, olderThanDays |-> Undef,
    belowImportance |-> Num(DefaultImportance), soft |-> s,
    decayFactor |-> Undef] : s \in {Undef, Bool(FALSE)}}

NextLifecycle ==
  \/ Tick
  \/ \E p \in LifecycleStoreParams : StoreMemory(p)
  \/ \E p \in LifecycleReinforceParams : Reinforce(p)
  \/ \E p \in LifecycleForgetParams : Forget(p)
  \/ \E id \in MemIds : SoftDelete(id)
  \/ \E id \in MemIds : HardDelete(id)

LifecycleSpec == Init /\ [][NextLifecycle]_vars

\* --------------------------------------------------- the counters
DecayByIdParams ==
  {[memoryId |-> Str(id), tags |-> Undef, olderThanDays |-> Undef,
    belowImportance |-> Undef, soft |-> Undef, decayFactor |-> Undef] :
     id \in MemIds}

NextCounter ==
  \/ Tick
  \/ \E p \in LifecycleStoreParams : StoreMemory(p)
  \/ \E p \in LifecycleReinforceParams : Reinforce(p)
  \/ \E p \in DecayByIdParams : Forget(p)
  \/ \E id \in MemIds : SoftDelete(id)
  \/ \E id \in MemIds : UpdateAccess(id, "ui theme")

CounterSpec == Init /\ [][NextCounter]_vars

\* ----------------------------------------- concurrent reinforce and decay
ConcurrentBoost == 3 * DefaultBoost

StatementCalls ==
  {[op |-> "reinforce", memoryId |-> UUIDs[1], arg |-> ConcurrentBoost,
    pc |-> "issued", seen |-> NoRow],
   [op |-> "decay", memoryId |-> UUIDs[1], arg |-> DefaultDecayFactor,
    pc |-> "issued", seen |-> NoRow]}

ConcurrentMemory ==
  MemoryCreate(<< >>, UUIDs[1], "dark mode", << >>, DefaultImportance, 0).mems

InitConcurrent ==
  /\ now = 0
  /\ memories = ConcurrentMemory
  /\ relations = {}
  /\ access_log = EmptyBag
  /\ pending = << >>
  /\ console = {}
  /\ response = NoResponse
  /\ nextId = 2
  /\ calls \in [1..MaxCalls -> StatementCalls]
  /\ embedder = TRUE
  /\ fanOut = << >>

NextConcurrent ==
  \/ Tick
  \/ \E c \in 1..MaxCalls : ScanRow(c)
  \/ \E c \in 1..MaxCalls : WriteRow(c)

ConcurrentSpec == InitConcurrent /\ [][NextConcurrent]_vars

\* ------------------------------------------ the embedding provider
NextEmbedding ==
  \/ EmbedderChange
  \/ \E p \in StoreParams : StoreMemory(p)
  \/ \E p \in SearchParams : SearchMemory(p)
  \/ \E p \in RecallParams : RecallContext(p)
  \/ \E i \in 1..MaxPending : AccessWrite(i)

EmbeddingSpec == Init /\ [][NextEmbedding]_vars

\* ---------------------------------------------------- recall fan-out
ContextOf(text, n) == [i \in 1..n |-> text]

FanOutContexts(task) ==
  {Undef, Arr(<< "editor", "ui theme" >>), Arr(ContextOf(task, MaxContextItems)),
   Arr(ContextOf(task, MaxContextItems + 1)),
   Arr(ContextOf(task, MaxContextItems) \o << "editor", "" >>)}

FanOutParams ==
  UNION {{[task |-> Str(t), context |-> c, limit |-> l, minScore |-> Undef] :
            c \in FanOutContexts(t),
            l \in {Undef, Num(1), Num(DefaultLimit + 2), Num(RecallMaxLimit)}} :
           t \in {"ui theme", "editor"}}

InitFanOut ==
  /\ now = 0
  /\ memories = ConcurrentMemory
  /\ relations = {}
  /\ access_log = EmptyBag
  /\ pending = << >>
  /\ console = {}
  /\ response = NoResponse
  /\ nextId = 2
  /\ calls = << >>
  /\ embedder = TRUE
  /\ fanOut = << >>

NextFanOut ==
  \/ Tick
  \/ \E p \in FanOutParams : RecallContext(p)
  \/ \E i \in 1..MaxPending : AccessWrite(i)

FanOutSpec == InitFanOut /\ [][NextFanOut]_vars

\* ------------------------------------- reinforce racing with forget
RelateCalls ==
  {[op |-> "reinforce_relate", memoryId |-> s, arg |-> t, pc |-> "issued",
    seen |-> NoRow] : s, t \in MemIds}

RaceForgetParams ==
  {[memoryId |-> Str(id), tags |-> Undef, olderThanDays |-> Undef,
    belowImportance |-> Undef, soft |-> Bool(FALSE), decayFactor |-> Undef] :
     id \in MemIds}
  \cup
  {[memoryId |-> Undef, tags |-> g, olderThanDays |-> Undef,
    belowImportance |-> Undef, soft |-> Undef, decayFactor |-> Undef] :
     g \in {Arr(<< "temporary" >>), Arr(<< "ui" >>)}}

RaceRows ==
  {[content |-> "dark mode", tags |-> g, importance |-> DefaultImportance,
    access_count |-> 0, reinforcement_count |-> 0, created_at |-> 0,
    last_accessed |-> 0, last_reinforced |-> NULL,
    expires_at |-> NULL, deleted_at |-> NULL] :
     g \in {<< "temporary" >>, << "ui" >>}}

InitRace ==
  /\ now = 0
  /\ memories \in [MemIds -> RaceRows]
  /\ relations = {}
  /\ access_log = EmptyBag
  /\ pending = << >>
  /\ console = {}
  /\ response = NoResponse
  /\ nextId = MaxMem + 1
  /\ calls \in [1..1 -> RelateCalls]
  /\ embedder = TRUE
  /\ fanOut = << >>

NextRace ==
  \/ Tick
  \/ \E c \in 1..MaxCalls : ReinforceUpdate(c)
  \/ \E c \in 1..MaxCalls : ReinforceGetTarget(c)
  \/ \E c \in 1..MaxCalls : ReinforceCreate(c)
  \/ \E p \in RaceForgetParams : Forget(p)

RaceSpec == InitRace /\ [][NextRace]_vars

(***************************************************************************)
(* Properties                                                              *)
(***************************************************************************)
RetrievalStep ==
  \/ \E p \in SearchParams : SearchMemory(p)
  \/ \E p \in RecallParams : RecallContext(p)
  \/ \E p \in RelatedParams : GetRelated(p)

\* C1: no retrieval (search_memory, recall_context, get_related) returns a
\* memory that is soft-deleted when the call is made, be it as a similar
\* entry or as the other end of an explicit relation.
C1_SoftDeletedNeverReturned ==
  [][RetrievalStep =>
       \A i \in DOMAIN response'.rows :
         LET id == response'.rows[i].id
         IN id \in DOMAIN memories => memories[id].deleted_at = NULL]_vars

\* C2 (as claimed): the importance of a memory that was reinforced lies in
\* [0.01, 1.0].
C2_ImportanceAboveFloor ==
  \A id \in DOMAIN memories :
    memories[id].reinforcement_count > 0 =>
      /\ memories[id].importance >= DecayFloor
      /\ memories[id].importance <= Unit

\* C2 (amended): after any sequence of store, reinforce and decay calls the
\* importance of every memory lies in [0, 1.0].
C2_ImportanceInUnitInterval ==
  \A id \in DOMAIN memories :
    /\ memories[id].importance >= 0
    /\ memories[id].importance <= Unit

\* A reinforced memory whose importance is below the decay floor.
C2_Witness ==
  \E id \in DOMAIN memories :
    /\ memories[id].reinforcement_count > 0
    /\ memories[id].importance < DecayFloor

\* A criterion that restricts the rows: a non-empty tag list, a positive
\* number of days, a numeric threshold.
EffectiveCriteria(p) ==
  \/ p.tags.t = "array" /\ Len(p.tags.v) > 0
  \/ p.olderThanDays.t = "number" /\ p.olderThanDays.v > 0
  \/ p.belowImportance.t = "number"

\* C3: a forget without memoryId and without an effective criterion
\* changes no memory.
C3_ForgetNeedsCriterion ==
  [][\A p \in ForgetByCriteriaParams :
       (Forget(p) /\ ~EffectiveCriteria(p)) => memories' = memories]_vars

Queued(id) ==
  \E i \in DOMAIN pending : id \in SeqToSet(pending[i].ids)

\* C4: a memory returned by a retrieval whose access write is queued
\* eventually has an access-log row, unless it is hard-deleted meanwhile.
C4_ReturnedMemoryLogged ==
  \A id \in MemIds :
    (Queued(id) /\ LogCount(access_log, id) = 0)
      ~> (id \notin DOMAIN memories \/ LogCount(access_log, id) > 0)

\* C5: for every memory, access_count is the number of its access-log rows,
\* and last_accessed is not older than any of them; every log row belongs to
\* a memory.
C5_AccessCountMatchesLog ==
  /\ \A id \in DOMAIN memories :
       /\ memories[id].access_count = LogCount(access_log, id)
       /\ \A r \in LogRows(access_log) :
            r.memory_id = id => memories[id].last_accessed >= r.accessed_at
  /\ \A r \in LogRows(access_log) : r.memory_id \in DOMAIN memories

\* A memory read after it was created: counted, logged and refreshed.
C5_Witness ==
  \E id \in DOMAIN memories :
    /\ memories[id].access_count > 0
    /\ memories[id].last_accessed > memories[id].created_at
    /\ LogCount(access_log, id) = memories[id].access_count

StoreInvalid(p) ==
  \/ ~sanitizeContent(p.content).ok
  \/ ~validateTags(p.tags).ok
  \/ ~validateImportance(p.importance).ok

SearchInvalid(p) ==
  \/ ~validateQuery(p.query).ok
  \/ ~validateLimit(p.limit, SearchMaxLimit).ok
  \/ Truthy(p.tags) /\ ~validateTags(p.tags).ok

RecallInvalid(p) ==
  \/ ~validateQuery(p.task).ok
  \/ ~validateLimit(p.limit, RecallMaxLimit).ok

RelatedInvalid(p) ==
  \/ ~validateUUID(p.memoryId).ok
  \/ ~validateLimit(p.limit, RelatedMaxLimit).ok

ReinforceInvalid(p) ==
  \/ ~validateUUID(p.memoryId).ok
  \/ Truthy(p.relateToMemory) /\ ~validateUUID(p.relateToMemory).ok

ForgetInvalid(p) ==
  \/ Truthy(p.memoryId) /\ ~validateUUID(p.memoryId).ok
  \/ ~Truthy(p.memoryId) /\ Truthy(p.tags) /\ ~validateTags(p.tags).ok

\* C6: a call with an invalid parameter leaves the memories, the relations,
\* the access log and the queue of access writes as they were.
C6_InvalidInputChangesNothing ==
  [][/\ \A p \in StoreParams :
          StoreMemory(p) /\ StoreInvalid(p) => UNCHANGED << tables, pending >>
     /\ \A p \in SearchParams :
          SearchMemory(p) /\ SearchInvalid(p) => UNCHANGED << tables, pending >>
     /\ \A p \in RecallParams :
          RecallContext(p) /\ RecallInvalid(p) => UNCHANGED << tables, pending >>
     /\ \A p \in RelatedParams :
          GetRelated(p) /\ RelatedInvalid(p) => UNCHANGED << tables, pending >>
     /\ \A p \in ForgetParams :
          Forget(p) /\ ForgetInvalid(p) => UNCHANGED << tables, pending >>
     /\ \A p \in ReinforceParams :
          Reinforce(p) /\ ReinforceInvalid(p) => UNCHANGED << tables, pending >>
    ]_vars

\* C7: a reinforce that returns success=false has changed neither the
\* memories nor the relations.
C7_FailedReinforceChangesNothing ==
  [][\A p \in ReinforceParams :
       (Reinforce(p) /\ ~response'.success) =>
         (memories' = memories /\ relations' = relations)]_vars

\* expires_at lies in the past at time t.
Expired(row, t) == row.expires_at # NULL /\ row.expires_at < t

C9_SearchTopLimitThenFilter ==
  [][\A p \in RetrievalSearchParams :
       (SearchMemory(p) /\ response'.success) =>
         LET rows == response'.rows
             limit == IF Nullish(p.limit) THEN DefaultLimit ELSE p.limit.v
             minScore == IF Nullish(p.minScore) THEN SearchDefaultMinScore
                         ELSE p.minScore.v
             tags == IF Truthy(p.tags) THEN p.tags ELSE JNull
             eligible == {id \in DOMAIN memories :
                            SearchWhere(memories[id], tags)}
             score == SearchScore(memories, p.query.v, now)
             returned == {rows[i].id : i \in DOMAIN rows}
         IN /\ Len(rows) <= limit
            /\ \A i \in DOMAIN rows :
                 /\ rows[i].id \in eligible
                 /\ rows[i].hybrid_score = score[rows[i].id]
                 /\ rows[i].hybrid_score >= ScoreUnits(minScore)
            /\ \A i, j \in DOMAIN rows :
                 i < j => /\ rows[i].hybrid_score >= rows[j].hybrid_score
                          /\ rows[i].id # rows[j].id
            /\ \A e \in eligible \ returned :
                 \/ score[e] < ScoreUnits(minScore)
                 \/ Cardinality({x \in eligible \ {e} : score[x] >= score[e]})
                      >= limit]_vars

\* A search cut to one row while two memories are not deleted.
C9_Witness ==
  /\ response.op = "search_memory"
  /\ response.success
  /\ response.count = 1
  /\ Cardinality({id \in DOMAIN memories : memories[id].deleted_at = NULL}) = 2

\* The sub-queries of a recall that return memory id: it matches the WHERE
\* clause and its score reaches minScore.
ReturningQueries(p, id) ==
  LET queries == RecallQueries(p.task.v,
                               IF Truthy(p.context) THEN p.context.v ELSE << >>)
      minScore == IF Nullish(p.minScore) THEN RecallDefaultMinScore
                  ELSE p.minScore.v
  IN {q \in Range(queries) :
        /\ SearchWhere(memories[id], JNull)
        /\ SearchScore(memories, q, now)[id] >= ScoreUnits(minScore)}

BestScore(p, id) ==
  LET scores == {SearchScore(memories, q, now)[id] : q \in ReturningQueries(p, id)}
  IN CHOOSE x \in scores : \A y \in scores : y <= x

\* C10 (as claimed): a recall names each memory once, reports for it the
\* maximum of the scores of the sub-queries that returned it, and names as
\* matchedQuery a sub-query with that score.
C10_ReportedScoreIsMax ==
  [][\A p \in RetrievalRecallParams :
       (RecallContext(p) /\ response'.success) =>
         LET rows == response'.rows
         IN /\ \A i, j \in DOMAIN rows : i < j => rows[i].id # rows[j].id
            /\ \A i \in DOMAIN rows :
                 /\ ReturningQueries(p, rows[i].id) # {}
                 /\ rows[i].hybrid * Unit = BestScore(p, rows[i].id)
                 /\ rows[i].matchedQuery \in ReturningQueries(p, rows[i].id)
                 /\ SearchScore(memories, rows[i].matchedQuery, now)[rows[i].id]
                      = BestScore(p, rows[i].id)]_vars

\* C10 (amended): a recall names each memory once, retains for it the
\* maximum of the scores of the sub-queries that returned it, reports that
\* maximum rounded to four decimals, and names as matchedQuery a sub-query
\* with that score.
C10_RetainedScoreIsMax ==
  [][\A p \in RetrievalRecallParams :
       (RecallContext(p) /\ response'.success) =>
         LET rows == response'.rows
         IN /\ \A i, j \in DOMAIN rows : i < j => rows[i].id # rows[j].id
            /\ \A i \in DOMAIN rows :
                 /\ ReturningQueries(p, rows[i].id) # {}
                 /\ rows[i].hybrid_score = BestScore(p, rows[i].id)
                 /\ rows[i].hybrid = ToFixed4(BestScore(p, rows[i].id))
                 /\ rows[i].matchedQuery \in ReturningQueries(p, rows[i].id)
                 /\ SearchScore(memories, rows[i].matchedQuery, now)[rows[i].id]
                      = BestScore(p, rows[i].id)]_vars

\* A recall in which a context item beat the task for some memory and the
\* reported score differs from the retained one.
C10_Witness ==
  /\ response.op = "recall_context"
  /\ response.success
  /\ \E i \in DOMAIN response.rows :
       /\ response.rows[i].matchedQuery # response.echo
       /\ response.rows[i].hybrid * Unit # response.rows[i].hybrid_score

\* The memories some sub-query of a recall returns.
Candidates(p) == {id \in DOMAIN memories : ReturningQueries(p, id) # {}}

\* C11: a successful recall returns the candidates in non-increasing order
\* of their merged score, as many as the limit allows, and no candidate it
\* leaves out has a higher merged score than one it returns.
C11_RecallSortedAndTruncated ==
  [][\A p \in RetrievalRecallParams :
       (RecallContext(p) /\ response'.success) =>
         LET rows == response'.rows
             limit == IF Nullish(p.limit) THEN DefaultLimit ELSE p.limit.v
             returned == {rows[i].id : i \in DOMAIN rows}
         IN /\ Len(rows) = Min(limit, Cardinality(Candidates(p)))
            /\ returned \subseteq Candidates(p)
            /\ \A i, j \in DOMAIN rows :
                 i < j => rows[i].hybrid_score >= rows[j].hybrid_score
            /\ \A c \in Candidates(p) \ returned :
                 \A i \in DOMAIN rows :
                   BestScore(p, c) <= rows[i].hybrid_score]_vars

\* A recall cut to one row while two memories are not deleted.
C11_Witness ==
  /\ response.op = "recall_context"
  /\ response.success
  /\ response.count = 1
  /\ Cardinality({id \in DOMAIN memories : memories[id].deleted_at = NULL}) = 2

\* C12: a successful recall with a non-empty output queues exactly one
\* access write, for the ids of the output in its order, each once, tagged
\* with the task; the tables are as they were when the response is returned.
\* A recall with an empty output queues nothing.
C12_RecallQueuesOneWrite ==
  [][\A p \in RetrievalRecallParams :
       (RecallContext(p) /\ response'.success) =>
         LET rows == response'.rows
             ids == [i \in DOMAIN rows |-> rows[i].id]
         IN /\ UNCHANGED tables
            /\ \A i, j \in DOMAIN ids : i < j => ids[i] # ids[j]
            /\ IF Len(rows) = 0 THEN pending' = pending
               ELSE pending' = Append(pending, [ids |-> ids,
                                                query_text |-> p.task.v])]_vars

\* A queued write of a recall, tagged with the task, for a memory that a
\* context item matched best.
C12_Witness ==
  /\ response.op = "recall_context"
  /\ \E i \in DOMAIN response.rows :
       response.rows[i].matchedQuery # response.echo
  /\ \E w \in DOMAIN pending :
       /\ pending[w].query_text = response.echo
       /\ pending[w].ids = [i \in DOMAIN response.rows |-> response.rows[i].id]

\* The queued write i fails when it reaches the database.
WriteFails(i) ==
  ~batchUpdateAccess(memories, access_log, pending[i].ids,
                     pending[i].query_text, now).ok

\* C13: a search or recall that queues an access write has returned
\* success with its rows; when the write later fails, the response stays
\* what it was, no table changes, and the failure is written to the console.
C13_FailedWriteLeavesRead ==
  [][/\ \A i \in 1..MaxPending :
          (AccessWrite(i) /\ WriteFails(i)) =>
            /\ response' = response
            /\ UNCHANGED tables
            /\ "Failed to update access counts" \in console'
     /\ \A p \in RetrievalSearchParams :
          (SearchMemory(p) /\ pending' # pending) =>
            (response'.success /\ response'.count > 0)
     /\ \A p \in RetrievalRecallParams :
          (RecallContext(p) /\ pending' # pending) =>
            (response'.success /\ response'.count > 0)]_vars

\* A read that returned rows, whose write has failed and been reported.
C13_Witness ==
  /\ response.op \in {"search_memory", "recall_context"}
  /\ response.success
  /\ response.count > 0
  /\ pending = << >>
  /\ "Failed to update access counts" \in console

\* The memory a request names exists and is not soft-deleted.
Active(id) == id \in DOMAIN memories /\ memories[id].deleted_at = NULL

\* C14: a reinforce with a boost the input schema admits (absent, or at
\* least 0) on an active memory succeeds, sets importance to
\* min(importance + boost, 1.0), adds one to reinforcement_count and sets
\* last_reinforced and last_accessed to now, leaving every other field and
\* memory alone; on an absent or soft-deleted id it reports not found and
\* changes no memory.
C14_ReinforceEffect ==
  [][\A p \in ImportanceReinforceParams :
       (Reinforce(p) /\ (Nullish(p.boost) \/ p.boost.v >= 0)) =>
         LET id == p.memoryId.v
             boost == IF Nullish(p.boost) THEN DefaultBoost ELSE p.boost.v
         IN IF Active(id)
            THEN /\ response'.success
                 /\ memories' =
                      [memories EXCEPT
                         ![id].importance = Min(@ + boost, Unit),
                         ![id].reinforcement_count = @ + 1,
                         ![id].last_reinforced = now,
                         ![id].last_accessed = now]
            ELSE /\ ~response'.success
                 /\ response'.note = "Memory not found"
                 /\ memories' = memories]_vars

\* A memory reinforced up to the cap, after the clock has moved.
C14_Witness ==
  /\ response.op = "reinforce"
  /\ response.success
  /\ \E id \in DOMAIN memories :
       /\ memories[id].importance = Unit
       /\ memories[id].reinforcement_count = 1
       /\ memories[id].last_reinforced = now
       /\ memories[id].last_reinforced > memories[id].created_at

\* A soft forget by id with a decay factor the input schema admits (absent,
\* or between 0 and 1).
DecayRequest(p) ==
  /\ Truthy(p.memoryId)
  /\ p.soft # Bool(FALSE)
  /\ Nullish(p.decayFactor) \/ (p.decayFactor.v >= 0 /\ p.decayFactor.v <= Unit)

\* C15: a decay of an active memory sets its importance to
\* max(importance * factor, 0.01) and changes no other field of it, no
\* other memory, no relation and no access-log row.
C15_DecayEffect ==
  [][\A p \in ImportanceForgetParams :
       (Forget(p) /\ DecayRequest(p) /\ Active(p.memoryId.v)) =>
         LET id == p.memoryId.v
             factor == IF Nullish(p.decayFactor) THEN DefaultDecayFactor
                       ELSE p.decayFactor.v
         IN /\ response'.success
            /\ memories' =
                 [memories EXCEPT
                    ![id].importance = Max((@ * factor) \div Unit, DecayFloor)]
            /\ relations' = relations
            /\ access_log' = access_log]_vars

\* A reinforced memory decayed to the floor next to another memory.
C15_Witness ==
  /\ response.op = "forget"
  /\ response.note = "importance decayed"
  /\ Cardinality(DOMAIN memories) = 2
  /\ \E id \in DOMAIN memories :
       /\ memories[id].importance = DecayFloor
       /\ memories[id].reinforcement_count = 1

\* C16: a soft forget by id of an active memory leaves it active and does
\* not raise its importance.
C16_DecayNeverRaises ==
  [][\A p \in ImportanceForgetParams :
       (Forget(p) /\ DecayRequest(p) /\ Active(p.memoryId.v)) =>
         LET id == p.memoryId.v
         IN /\ id \in DOMAIN memories'
            /\ memories'[id].deleted_at = NULL
            /\ memories'[id].importance <= memories[id].importance]_vars

\* C17: softDelete of a memory that is absent or already soft-deleted, and
\* hardDelete of a memory that is absent, report that no row was affected
\* and leave every table, the earlier deleted_at included, as it was.
C17_DeleteIdempotent ==
  [][/\ \A id \in QueryIds :
          (SoftDelete(id) /\ ~Active(id)) =>
            (~response'.success /\ response'.count = 0 /\ UNCHANGED tables)
     /\ \A id \in QueryIds :
          (HardDelete(id) /\ id \notin DOMAIN memories) =>
            (~response'.success /\ response'.count = 0 /\ UNCHANGED tables)
    ]_vars

\* softDelete applied again, later, to a memory soft-deleted before.
C17_Witness ==
  /\ response.op = "softDelete"
  /\ ~response.success
  /\ response.echo \in DOMAIN memories
  /\ memories[response.echo].deleted_at # NULL
  /\ memories[response.echo].deleted_at < now

\* C18: both endpoints of every relation and the memory of every
\* access-log row are rows of memories; so after a hard deletion, by id or
\* by criteria, nothing refers to the deleted memory.
C18_NoDanglingReference ==
  /\ \A r \in relations :
       r.source \in DOMAIN memories /\ r.target \in DOMAIN memories
  /\ \A r \in LogRows(access_log) : r.memory_id \in DOMAIN memories

\* A memory has been hard-deleted and a log row of another one remains.
C18_Witness ==
  /\ response.op \in {"hardDelete", "forget"}
  /\ response.success
  /\ MemIds \ DOMAIN memories # {}
  /\ access_log # EmptyBag

\* The rows a criteria-based forget is to affect: not deleted, and passing
\* every filter the request supplies.
CriteriaHit(p) ==
  {id \in DOMAIN memories :
     /\ memories[id].deleted_at = NULL
     /\ Truthy(p.tags) => TagsOverlap(memories[id].tags, p.tags.v)
     /\ Truthy(p.olderThanDays) =>
          memories[id].created_at * RecencyDecayDays
            < (now * RecencyDecayDays) - p.olderThanDays.v
     /\ ~Nullish(p.belowImportance) =>
          memories[id].importance < p.belowImportance.v}

RelatesToItself(p) ==
  /\ validateUUID(p.memoryId).ok
  /\ Truthy(p.relateToMemory)
  /\ validateUUID(p.relateToMemory).ok
  /\ validateUUID(p.relateToMemory).v = validateUUID(p.memoryId).v

\* C20: creating a relation whose source equals its target fails and
\* persists no edge, whether RelationQueries.create is called directly or
\* through reinforce with relateToMemory equal to memoryId; and no step
\* leaves an edge with source = target in memory_relations.
C20_NoSelfLoop ==
  [][/\ \A p \in RelationReinforceParams :
          (Reinforce(p) /\ RelatesToItself(p)) =>
            (~response'.success /\ relations' = relations)
     /\ \A s \in MemIds : \A relationType \in {"related_to", "supports"} :
          CreateRelation(s, s, relationType) =>
            (~response'.success /\ relations' = relations)
     /\ \A r \in relations' : r.source # r.target
    ]_vars

\* A reinforce relating an existing memory to itself was refused while
\* the table holds other edges.
C20_Witness ==
  /\ response.op = "reinforce"
  /\ ~response.success
  /\ response.note = "violates check constraint"
  /\ UUIDs[1] \in DOMAIN memories
  /\ memories[UUIDs[1]].reinforcement_count > 0
  /\ relations # {}
  /\ \A r \in relations : r.source # r.target

\* The edges of one (source, target, type) triple.
EdgesOf(rels, s, t, relationType) ==
  {r \in rels : r.source = s /\ r.target = t /\ r.type = relationType}

\* C21: no step leaves two edges with the same (source, target, type); a
\* creation that succeeds leaves exactly one edge for its triple, carrying
\* the strength of that call, and every other edge as it was.
C21_RelationUpsert ==
  [][/\ \A r1, r2 \in relations' :
          (r1.source = r2.source /\ r1.target = r2.target /\ r1.type = r2.type)
            => r1 = r2
     /\ \A s, t \in MemIds : \A relationType \in RelationTypes :
          \A strength \in Strengths :
            (CreateRelationStrength(s, t, relationType, strength)
               /\ response'.success) =>
              /\ EdgesOf(relations', s, t, relationType) =
                   {[source |-> s, target |-> t, type |-> relationType,
                     strength |-> strength]}
              /\ relations' \ EdgesOf(relations', s, t, relationType) =
                   relations \ EdgesOf(relations, s, t, relationType)
    ]_vars

\* A creation left one edge of its triple with a strength of its own,
\* beside the edge of another type between the same two memories.
C21_Witness ==
  /\ response.op = "createRelation"
  /\ response.success
  /\ \E r \in relations :
       /\ r.strength = DefaultStrength - DefaultBoost
       /\ r.type = "supports"
       /\ EdgesOf(relations, r.source, r.target, "supports") = {r}
       /\ \E q \in relations :
            /\ q.source = r.source /\ q.target = r.target
            /\ q.type = "related_to"
            /\ q.strength = DefaultStrength

\* The ids store_memory has handed out so far.
Created == {UUIDs[n] : n \in 1..(nextId - 1)}

\* C22: no step clears or changes a deleted_at that is set, and no step
\* brings back a hard-deleted id: a memory that appears has an id never
\* handed out before, and starts active.
C22_LifecycleOneWay ==
  [][/\ \A id \in DOMAIN memories \cap DOMAIN memories' :
          memories[id].deleted_at # NULL =>
            memories'[id].deleted_at = memories[id].deleted_at
     /\ \A id \in DOMAIN memories' \ DOMAIN memories :
          /\ id \notin Created
          /\ memories'[id].deleted_at = NULL
    ]_vars

\* Both ids were handed out, the first memory was hard-deleted and the
\* second soft-deleted at an earlier time, and a reinforce then found
\* nothing to reinforce.
C22_Witness ==
  /\ nextId = 3
  /\ DOMAIN memories = {UUIDs[2]}
  /\ memories[UUIDs[2]].deleted_at # NULL
  /\ memories[UUIDs[2]].deleted_at < now
  /\ response.op = "reinforce"
  /\ ~response.success

\* C23: across every step, a memory that exists before and after it has an
\* access_count and a reinforcement_count at least as large as before.
C23_CountersNeverDecrease ==
  [][\A id \in DOMAIN memories \cap DOMAIN memories' :
       /\ memories'[id].access_count >= memories[id].access_count
       /\ memories'[id].reinforcement_count >= memories[id].reinforcement_count
    ]_vars

\* A memory that was accessed and reinforced has just been decayed.
C23_Witness ==
  /\ response.op = "forget"
  /\ response.success
  /\ \E id \in DOMAIN memories :
       /\ memories[id].access_count > 0
       /\ memories[id].reinforcement_count > 0
       /\ memories[id].importance < DefaultImportance + DefaultBoost

\* What one call makes of an importance v when it runs alone.
SerialStep(v, call) ==
  IF call.op = "reinforce" THEN Min(v + call.arg, Unit)
  ELSE Max((v * call.arg) \div Unit, DecayFloor)

\* The importance after the calls have run one after another in the order
\* given, from its i-th call on.
RECURSIVE SerialImportance(_, _, _)
SerialImportance(v, order, i) ==
  IF i > Len(order) THEN v
  ELSE SerialImportance(SerialStep(v, calls[order[i]]), order, i + 1)

\* C24: for every interleaving of concurrent reinforce and decay calls on
\* one active memory, once all calls have finished reinforcement_count has
\* grown by the number of reinforce calls and the importance is the one
\* some serial order of the same calls produces; and no step shows a part
\* of reinforce's update: the count, the importance, last_reinforced and
\* last_accessed change together or not at all.
C24_ConcurrentUpdatesSerialize ==
  [][LET before == memories[UUIDs[1]]
         after == memories'[UUIDs[1]]
     IN /\ (\A c \in DOMAIN calls' : calls'[c].pc = "done") =>
             /\ after.reinforcement_count =
                  Cardinality({c \in DOMAIN calls : calls[c].op = "reinforce"})
             /\ \E order \in Perms(DOMAIN calls) :
                  after.importance =
                    SerialImportance(DefaultImportance, order, 1)
        /\ after.reinforcement_count # before.reinforcement_count =>
             /\ after.reinforcement_count = before.reinforcement_count + 1
             /\ after.importance = Min(before.importance + ConcurrentBoost, Unit)
             /\ after.last_reinforced = now
             /\ after.last_accessed = now
        /\ after.reinforcement_count = before.reinforcement_count =>
             /\ after.last_reinforced = before.last_reinforced
             /\ after.last_accessed = before.last_accessed
    ]_vars

\* Two reinforce calls and a decay call have all finished, the decay
\* having written between the two reinforcements.
C24_Witness ==
  /\ calls # << >>
  /\ \A c \in DOMAIN calls : calls[c].pc = "done"
  /\ memories[UUIDs[1]].reinforcement_count = 2
  /\ memories[UUIDs[1]].importance =
       ((DefaultImportance + ConcurrentBoost) * DefaultDecayFactor) \div Unit
         + ConcurrentBoost

\* C25: while the embedding provider fails, store_memory returns
\* success = false and creates no memory, and search_memory and
\* recall_context return success = false with no memories and issue no
\* access-log write.
C25_EmbeddingFailsClosed ==
  [][~embedder =>
       /\ \A p \in StoreParams :
            StoreMemory(p) =>
              (~response'.success /\ UNCHANGED << tables, pending, nextId >>)
       /\ \A p \in SearchParams :
            SearchMemory(p) =>
              /\ ~response'.success
              /\ response'.rows = << >>
              /\ UNCHANGED << tables, pending >>
       /\ \A p \in RecallParams :
            RecallContext(p) =>
              /\ ~response'.success
              /\ response'.rows = << >>
              /\ UNCHANGED << tables, pending >>
    ]_vars

\* With a memory stored and the provider down, a recall was refused for
\* the provider's failure.
C25_Witness ==
  /\ ~embedder
  /\ \E id \in DOMAIN memories : memories[id].deleted_at = NULL
  /\ response.op = "recall_context"
  /\ ~response.success
  /\ response.note = EmbeddingFailed

\* C26: a recall whose task and limit are valid and whose first ten
\* context items are non-empty succeeds, whatever follows the tenth item;
\* it issues one search for the task and one for each of the first ten
\* context items, in that order, at most eleven in all, and each search
\* asks for ceil(limit / numQueries) + 5 candidates, numQueries being the
\* number of searches issued.
C26_RecallFanOut ==
  [][\A p \in FanOutParams :
       RecallContext(p) =>
         LET items == IF Truthy(p.context) THEN p.context.v ELSE << >>
             kept == Min(Len(items), 10)
             numQueries == 1 + kept
             limit == IF Nullish(p.limit) THEN 10 ELSE p.limit.v
             ceil == CHOOSE k \in 0..limit :
                       k * numQueries >= limit /\ (k - 1) * numQueries < limit
         IN /\ response'.success
            /\ Len(fanOut') = numQueries
            /\ numQueries <= 11
            /\ fanOut'[1].query = p.task.v
            /\ \A i \in 1..kept : fanOut'[i + 1].query = items[i]
            /\ \A i \in 1..numQueries : fanOut'[i].limit = ceil + 5
    ]_vars

\* A recall given more than ten context items searched eleven times.
C26_Witness ==
  /\ response.op = "recall_context"
  /\ response.success
  /\ response.count > 0
  /\ Len(fanOut) = 11
  /\ fanOut[1].limit = 6

\* C27: every score search_memory reports is the documented product
\* (semantic * 0.8 + recency * 0.2) * importance of the memory it ranks, so
\* it never exceeds the weighted base (semantic * 0.8 + recency * 0.2).
C27_ScoreIsDocumentedProduct ==
  [][\A p \in RetrievalSearchParams :
       SearchMemory(p) =>
         \A i \in DOMAIN response'.rows :
           LET row == memories[response'.rows[i].id]
               base == (SemanticWeight * Similarity(row.content, response'.echo))
                       + (RecencyWeight
                            * calculate_recency_score(row.last_accessed, now))
           IN /\ response'.rows[i].hybrid_score = base * row.importance
              /\ response'.rows[i].hybrid_score <= base * Unit
    ]_vars

\* C28: whatever forget calls run between the queries of a reinforce
\* handler, every relation the handler inserts has, in the state it is
\* inserted into, a source and a target that exist and are not
\* soft-deleted.
C28_RelationEndpointsActive ==
  [][\A c \in DOMAIN calls :
       ReinforceCreate(c) =>
         \A r \in relations' \ relations :
           /\ MemoryGetById(memories, r.source)
           /\ MemoryGetById(memories, r.target)
    ]_vars

\* C29: the entries get_related returns name pairwise different memories,
\* none of them the memory asked about.
C29_RelatedDistinct ==
  [][\A p \in RelatedParams :
       (GetRelated(p) /\ response'.success) =>
         /\ \A i, j \in DOMAIN response'.rows :
              i # j => response'.rows[i].id # response'.rows[j].id
         /\ \A i \in DOMAIN response'.rows :
              response'.rows[i].id # response'.echo
    ]_vars

\* C30: no step changes the importance, access_count, reinforcement_count,
\* last_accessed or last_reinforced of a memory whose deleted_at is set.
C30_SoftDeletedFrozen ==
  [][\A id \in DOMAIN memories \cap DOMAIN memories' :
       memories[id].deleted_at # NULL =>
         /\ memories'[id].importance = memories[id].importance
         /\ memories'[id].access_count = memories[id].access_count
         /\ memories'[id].reinforcement_count = memories[id].reinforcement_count
         /\ memories'[id].last_accessed = memories[id].last_accessed
         /\ memories'[id].last_reinforced = memories[id].last_reinforced
    ]_vars

====
